---- MODULE Spec2Model ----
(***************************************************************************)
(* Azure Scheduled Events demo, scenario 3 (automated handling): the       *)
(* monitor loop of linux.monitor.py, the drain hooks of drain_hooks.py and *)
(* the IMDS client of imds_client.py; and the notification loops of        *)
(* scenario 1 (Logic App) and scenario 2 (ServiceNow incident).            *)
(*                                                                         *)
(* JSON / Python values are tagged records: [t |-> "str", v |-> s],        *)
(* [t |-> "null"], [t |-> "list", v |-> seq], [t |-> "dict", ...] and      *)
(* Python's None is [t |-> "none"].  Result messages are the source's      *)
(* strings without their leading status glyph.                             *)
(***************************************************************************)
EXTENDS Integers, Sequences, FiniteSets, TLC

(* ---------- bounds ---------- *)
\* largest number of events in one poll response
MaxEvents == 2

(* ---------- values ---------- *)
PyNone == [t |-> "none"]
JNull == [t |-> "null"]
Str(s) == [t |-> "str", v |-> s]
JList(q) == [t |-> "list", v |-> q]

\* dict.get(key, default) on an event
Get(d, key, default) == IF key \in DOMAIN d THEN d[key] ELSE default

\* str.lower() on the strings the model uses
\* (a mutant that compares the type as it was delivered)
Lower_identity(s) == s

Lower(s) ==
  CASE s = "Reboot" -> "reboot"
    [] s = "REDEPLOY" -> "redeploy"
    [] OTHER -> s

\* the EventType values a feed can deliver
EventTypeValues ==
  { Str("Reboot"), Str("REDEPLOY"), Str("preempt"), Str("terminate"), JNull }

\* event shapes: with a type and a list of resource names, without the
\* EventType key, and with Resources null
EventPool ==
  { [EventType |-> ty, Resources |-> JList(<<"vm1">>)] : ty \in EventTypeValues }
  \cup { [Resources |-> JList(<<"vm1">>)] }
  \cup { [EventType |-> Str("reboot"), Resources |-> JNull] }

\* the event at position i of a batch carries EventId i
WithId(e, i) == [k \in DOMAIN e \cup {"EventId"} |-> IF k = "EventId" THEN i ELSE e[k]]

Batches ==
  UNION { { [i \in 1..n |-> WithId(f[i], i)] : f \in [1..n -> EventPool] } : n \in 1..MaxEvents }

(* ---------- utils.py: validate_config ---------- *)
\* Python's falsy values among the configuration values: None, null, the
\* empty string, the empty dict (a dict is a record of its keys, a scalar
\* a tagged record)
Falsy(v) ==
  IF "t" \in DOMAIN v THEN v.t \in {"none", "null"} \/ (v.t = "str" /\ v.v = "")
  ELSE DOMAIN v = {}

\* missing_keys = [key for key in required_keys if key not in config or not config[key]]
validate_config(cfg, required_keys) ==
  \A key \in required_keys : key \in DOMAIN cfg /\ ~Falsy(cfg[key])

\* dict.pop(key, None)
Pop(d, key) == [k \in DOMAIN d \ {key} |-> d[k]]

(* ---------- imds_client.py ---------- *)
\* what the transport can answer to the GET
PollFailures == {"network_error", "timeout", "http_error", "bad_json"}

PollBodies ==
  { [t |-> "dict", has |-> {}, Events |-> JNull],
    [t |-> "dict", has |-> {"DocumentIncarnation"}, Events |-> JNull],
    [t |-> "dict", has |-> {"DocumentIncarnation", "Events"}, Events |-> JNull],
    [t |-> "dict", has |-> {"DocumentIncarnation", "Events"}, Events |-> JList(<<>>)] }
  \cup { [t |-> "dict", has |-> {"DocumentIncarnation", "Events"}, Events |-> JList(b)] : b \in Batches }

PollResponses == [kind : PollFailures] \cup { [kind |-> "ok", body |-> b] : b \in PollBodies }

\* a mutant that lets the parse error of the body escape
get_scheduled_events_raising(resp) ==
  IF resp.kind = "ok" THEN [exc |-> "none", val |-> resp.body]
  ELSE IF resp.kind = "bad_json" THEN [exc |-> "JSONDecodeError", val |-> PyNone]
  ELSE [exc |-> "none", val |-> PyNone]

get_scheduled_events(resp) ==
  IF resp.kind = "ok" THEN [exc |-> "none", val |-> resp.body]
  ELSE [exc |-> "none", val |-> PyNone]

\* Python truthiness of a poll result
Truthy(d) == d.t = "dict" /\ d.has # {}

has_events(d) ==
  IF ~Truthy(d) \/ "Events" \notin d.has THEN [exc |-> "none", val |-> FALSE]
  ELSE IF d.Events.t = "list" THEN [exc |-> "none", val |-> Len(d.Events.v) > 0]
  ELSE [exc |-> "TypeError", val |-> FALSE]

get_events_list(d) ==
  IF ~Truthy(d) \/ "Events" \notin d.has THEN JList(<<>>) ELSE d.Events

\* format_event_summary: ', '.join(resources) if resources else 'None'
\* needs a list when Resources is not falsy
format_event_summary(event) ==
  LET resources == Get(event, "Resources", JList(<<>>))
  IN IF resources.t \in {"null", "list"} THEN [exc |-> "none"] ELSE [exc |-> "TypeError"]

\* what the transport can answer to the acknowledging POST
AckResponses == {"ok", "error"}

acknowledge_event(resp) == resp = "ok"

(* ---------- drain_hooks.py ---------- *)
\* self.config = config or {}; self.dry_run = self.config.get("dry_run", False):
\* a value that is no dict and not falsy has no get()
DrainHooks_init(drain_config) ==
  IF "t" \in DOMAIN drain_config /\ ~Falsy(drain_config)
    THEN [exc |-> "AttributeError", dry_run |-> FALSE]
    ELSE [exc |-> "none", dry_run |-> Get(drain_config, "dry_run", FALSE)]

\* One drain action: the dry-run return, else the try block (work |-> TRUE)
\* ending in the success return or, on a fault, in the except return.
HookOutcome(dry_run, fault, dryMsg, okMsg, failMsg) ==
  IF dry_run THEN [ok |-> TRUE, msg |-> dryMsg, work |-> FALSE]
  ELSE IF fault THEN [ok |-> FALSE, msg |-> failMsg, work |-> TRUE]
  ELSE [ok |-> TRUE, msg |-> okMsg, work |-> TRUE]

prepare_for_reboot(dry_run, fault) ==
  HookOutcome(dry_run, fault, "[DRY RUN] Reboot preparation completed",
              "Reboot preparation completed successfully",
              "Reboot preparation failed: fault")

prepare_for_redeploy(dry_run, fault) ==
  HookOutcome(dry_run, fault, "[DRY RUN] Redeploy preparation completed",
              "Redeploy preparation completed successfully",
              "Redeploy preparation failed: fault")

prepare_for_preempt(dry_run, fault) ==
  HookOutcome(dry_run, fault, "[DRY RUN] Preemption preparation completed",
              "Preemption preparation completed successfully",
              "Preemption preparation failed: fault")

\* (a mutant without the dry-run return of lines 190-191)
prepare_for_generic_event_nodry(dry_run, fault) ==
  HookOutcome(FALSE, fault, "[DRY RUN] Generic preparation completed",
              "Generic preparation completed successfully",
              "Generic preparation failed: fault")

prepare_for_generic_event(dry_run, fault) ==
  HookOutcome(dry_run, fault, "[DRY RUN] Generic preparation completed",
              "Generic preparation completed successfully",
              "Generic preparation failed: fault")

generic_preparation_steps(dry_run, fault) ==
  HookOutcome(dry_run, fault, "[DRY RUN] Generic steps completed",
              "Generic preparation steps completed",
              "Generic preparation steps failed: fault")

\* event.get("EventType", "").lower(): only a str has lower()
event_type(event) ==
  LET raw == Get(event, "EventType", Str(""))
  IN IF raw.t = "str" THEN [exc |-> "none", val |-> Lower(raw.v)]
     ELSE [exc |-> "AttributeError", val |-> ""]

\* the if/elif chain of execute_all_hooks
HookFor(et) ==
  IF et = "reboot" THEN "reboot"
  ELSE IF et = "redeploy" THEN "redeploy"
  ELSE IF et = "preempt" THEN "preempt"
  ELSE "generic"

RunHook(kind, dry_run, fault) ==
  CASE kind = "reboot" -> prepare_for_reboot(dry_run, fault)
    [] kind = "redeploy" -> prepare_for_redeploy(dry_run, fault)
    [] kind = "preempt" -> prepare_for_preempt(dry_run, fault)
    [] OTHER -> prepare_for_generic_event(dry_run, fault)

\* execute_all_hooks as a function of the event, the dry-run flag and the
\* faults (f1 in the type-specific action, f2 in the generic steps)
execute_all_hooks(event, dry_run, f1, f2) ==
  LET et == event_type(event)
      r == RunHook(HookFor(et.val), dry_run, f1)
      g == generic_preparation_steps(dry_run, f2)
  IN IF et.exc # "none" THEN [exc |-> et.exc, success |-> FALSE, results |-> <<>>]
     ELSE [exc |-> "none", success |-> r.ok /\ g.ok, results |-> <<r.msg, g.msg>>]

(* ---------- linux.monitor.py: the recorder ---------- *)
\* what the system of record can answer to the POST: a 2xx with the
\* expected body, a transport error, a non-2xx status, a body that is not
\* JSON, a JSON body whose "result" is not an object
RecordResponses == {"created", "transport_error", "http_error", "bad_json", "bad_shape"}

\* ', '.join(event.get('Resources', [])) needs a list
CanFormat(event) == Get(event, "Resources", JList(<<>>)).t = "list"

\* no payload built
NoPayload ==
  [u_automation_success |-> "", state |-> "", close_notes |-> "", u_event_count |-> 0,
   early_ack_status |-> "", impact_window |-> "", automation_summary |-> <<>>]

\* (a mutant whose success field and state follow the early acknowledgment)
RecordPayload_honest(evs, results) ==
  [u_automation_success |-> IF results.early_ack_success THEN "true" ELSE "false",
   state |-> IF results.early_ack_success THEN "6" ELSE "1",
   close_notes |-> "Azure Scheduled Events handled automatically. No issues detected.",
   u_event_count |-> Len(evs),
   early_ack_status |-> IF results.early_ack_success THEN "Success" ELSE "Failed",
   impact_window |-> IF results.early_ack_success THEN "Shortened via early acknowledgment"
                     ELSE "Standard maintenance window",
   automation_summary |-> results.drain_results]

\* lines 69-106: the payload, with the parts of the description that are
\* computed from automation_results (Early ACK Status, Automation Actions
\* Taken, Impact Window)
RecordPayload(evs, results) ==
  [u_automation_success |-> "true",
   state |-> "6",
   close_notes |-> "Azure Scheduled Events handled automatically. No issues detected.",
   u_event_count |-> Len(evs),
   early_ack_status |-> IF results.early_ack_success THEN "Success" ELSE "Failed",
   impact_window |-> IF results.early_ack_success THEN "Shortened via early acknowledgment"
                     ELSE "Standard maintenance window",
   automation_summary |-> results.drain_results]

\* lines 60-129, the part of the recorder before requests.post: the event
\* details are formatted (TypeError on Resources null, outside the try) and
\* the payload is built
RecordRequest(evs, results) ==
  IF \E i \in DOMAIN evs : ~CanFormat(evs[i])
    THEN [exc |-> "TypeError", payload |-> NoPayload]
    ELSE [exc |-> "none", payload |-> RecordPayload(evs, results)]

create_servicenow_automation_record(evs, results, resp) ==
  LET req == RecordRequest(evs, results)
  IN IF req.exc # "none"
       THEN [exc |-> req.exc, val |-> FALSE, posted |-> FALSE, payload |-> req.payload]
     ELSE IF resp = "created"
       THEN [exc |-> "none", val |-> TRUE, posted |-> TRUE, payload |-> req.payload]
     ELSE IF resp = "bad_shape"
       THEN [exc |-> "AttributeError", val |-> FALSE, posted |-> TRUE, payload |-> req.payload]
     ELSE [exc |-> "none", val |-> FALSE, posted |-> resp # "transport_error",
           payload |-> req.payload]

(* ---------- linux.monitor.py: state ---------- *)
VARIABLES
  scenario,              \* which of the three monitors the process runs (0: monitor_events called on its own)
  returned,              \* what monitor_events returned
  pc,                    \* position of the process in main / process_scheduled_events_with_automation
  config,                \* the configuration: the file's content, after startup what main made of it
  once,                  \* args.once
  events_data,           \* the result of the last poll
  events,                \* the batch being processed
  automation_results,    \* drain_results, early_ack_success, servicenow_record_success
  overall_drain_success,
  idx,                   \* position of the for loops of step 1 and step 2
  hook,                  \* the execute_all_hooks call in flight
  ack_success_count,
  ack_calls,             \* the acknowledging POSTs of this cycle, in order, with their outcome
  drain_log,             \* the success flags execute_all_hooks returned in this cycle
  last_poll,             \* how the transport answered the last poll
  ack_attempted,         \* the cycle took the acknowledgment branch of step 2
  work_steps,            \* try blocks of drain actions entered in this cycle
  record_log,            \* what was handed to the recorder in this cycle
  payload,               \* the payload the recorder built in this cycle
  notify_log,            \* the notifications of this cycle (scenarios 1 and 2)
  ack_report,            \* what step 2 printed about the acknowledgment
  repeated,              \* the last poll delivered an EventId the poll before it delivered too
  stop                   \* how the process ended

vars == <<returned, scenario, notify_log, pc, config, once, events_data, events, automation_results,
          overall_drain_success, idx, hook, ack_success_count, ack_calls,
          drain_log, last_poll, ack_attempted, work_steps, record_log, payload,
          ack_report, repeated, stop>>

NoHook == [kind |-> "none", success |-> FALSE, results |-> <<>>]
Running == [reason |-> "running", code |-> 0, exc |-> "none", origin |-> "none"]
\* lines 170-174: the automation_results a cycle starts from
\* (a mutant that starts a cycle from the leftovers of a cycle before)
FreshResults_stale ==
  [drain_results |-> <<"Early acknowledgment skipped due to drain failures">>,
   early_ack_success |-> TRUE, servicenow_record_success |-> TRUE]

FreshResults ==
  [drain_results |-> <<>>, early_ack_success |-> FALSE, servicenow_record_success |-> FALSE]

SkipMessage == "Early acknowledgment skipped due to drain failures"

\* nothing printed yet by step 2
NoReport == [kind |-> "none", count |-> 0, total |-> 0]

(* ---------- the configuration file ---------- *)
\* what the file can hold under "automation": a block with the dry_run
\* flag and a second setting, or a value that is no block
AutomationValues ==
  { [dry_run |-> d, drain_timeout |-> Str("set")] : d \in BOOLEAN } \cup { Str("on") }

\* the empty dict
EmptyDict == <<>>

\* the keys main requires of a servicenow block
snow_required == {"instance_url", "username", "password"}

\* servicenow blocks: each required key absent, empty or set
SnowBlocks ==
  UNION { [keys -> {Str(""), Str("set")}] : keys \in SUBSET snow_required }

ValidBlock == [key \in snow_required |-> Str("set")]

\* the files of scenario 3: "automation", with or without "servicenow";
\* the empty file {}; a file with neither key
ConfigFiles ==
  { [automation |-> a] : a \in AutomationValues }
  \cup { [automation |-> a, servicenow |-> b] : a \in AutomationValues, b \in SnowBlocks }
  \cup { EmptyDict, [poll_interval |-> Str("set")] }

\* what lines 283-301 leave of a loaded file: a file that is not empty,
\* its automation block as it was or with dry_run set, a servicenow block
\* only if it is complete
Configs ==
  { c \in ConfigFiles : c # EmptyDict /\ ("servicenow" \in DOMAIN c => c.servicenow = ValidBlock) }
  \cup { [automation |-> [dry_run |-> TRUE], poll_interval |-> Str("set")] }

\* line 228: if config.get("servicenow")
HasRecorder == ~Falsy(Get(config, "servicenow", EmptyDict))

dry_run == DrainHooks_init(Get(config, "automation", EmptyDict)).dry_run

cycleVars == <<events, automation_results, overall_drain_success, idx, hook,
               ack_success_count, ack_calls, drain_log, ack_attempted, work_steps,
               record_log, payload, ack_report>>

Init ==
  /\ scenario = 3
  /\ returned = PyNone
  /\ pc = "startup"
  /\ config \in ConfigFiles
  /\ once \in BOOLEAN
  /\ events_data = PyNone
  /\ events = <<>>
  /\ automation_results = FreshResults
  /\ overall_drain_success = TRUE
  /\ idx = 0
  /\ hook = NoHook
  /\ ack_success_count = 0
  /\ ack_calls = <<>>
  /\ drain_log = <<>>
  /\ last_poll = "none"
  /\ ack_attempted = FALSE
  /\ work_steps = 0
  /\ record_log = <<>>
  /\ payload = NoPayload
  /\ notify_log = <<>>
  /\ ack_report = NoReport
  /\ repeated = FALSE
  /\ stop = Running

\* except Exception in main: print and sys.exit(1)
Crash(exc, origin) ==
  /\ pc' = "exited"
  /\ stop' = [reason |-> "Exception", code |-> 1, exc |-> exc, origin |-> origin]

\* break out of while True, main returns
Break ==
  /\ pc' = "exited"
  /\ stop' = [reason |-> "once", code |-> 0, exc |-> "none", origin |-> "none"]

(* ---------- utils.py: load_config ---------- *)
\* what opening and parsing the configuration file can do
ConfigLoads == {"ok", "not_found", "bad_json"}

\* the parsed file, or None on FileNotFoundError / JSONDecodeError
load_config(load, file) == IF load = "ok" THEN file ELSE PyNone

\* why "if not config: sys.exit(1)" fires: the load failed, or the file
\* holds the empty dict
NoConfig(load) == IF load = "ok" THEN "empty" ELSE load

(* ---------- linux.monitor.py: main ---------- *)
\* sys.exit(1) before the loop, or an exception main does not catch there
ConfigExit(exc, origin) ==
  /\ pc' = "exited"
  /\ stop' = [reason |-> "config", code |-> 1, exc |-> exc, origin |-> origin]

\* lines 284-287: if "automation" not in config: config["automation"] = {};
\* config["automation"]["dry_run"] = True (the other keys of the block stay)
ForceDryRun(cfg) ==
  LET block == IF "automation" \in DOMAIN cfg THEN cfg.automation ELSE EmptyDict
      forced == [k \in DOMAIN block \cup {"dry_run"} |-> IF k = "dry_run" THEN TRUE ELSE block[k]]
  IN [k \in DOMAIN cfg \cup {"automation"} |-> IF k = "automation" THEN forced ELSE cfg[k]]

\* lines 295-301: an incomplete servicenow block is dropped
\* (a mutant that never drops the block)
DropInvalidRecorder_keep(cfg) == cfg

DropInvalidRecorder(cfg) ==
  IF "servicenow" \in DOMAIN cfg /\ ~validate_config(cfg.servicenow, snow_required)
    THEN Pop(cfg, "servicenow")
    ELSE cfg

\* main of scenario 3, lines 279-301: load the file (if not config:
\* sys.exit(1), when it cannot be loaded or is empty), force dry_run when
\* --dry-run is given (item assignment on an automation value that is no
\* block raises TypeError), drop an incomplete servicenow block
Startup ==
  /\ pc = "startup"
  /\ scenario = 3
  /\ \E load \in ConfigLoads, args_dry_run \in BOOLEAN :
       IF Falsy(load_config(load, config))
         THEN /\ ConfigExit(NoConfig(load), "load_config")
              /\ UNCHANGED config
       ELSE IF args_dry_run /\ "automation" \in DOMAIN config /\ "t" \in DOMAIN config.automation
         THEN /\ ConfigExit("TypeError", "main")
              /\ UNCHANGED config
         ELSE /\ config' = DropInvalidRecorder(IF args_dry_run THEN ForceDryRun(config) ELSE config)
              /\ pc' = "poll"
              /\ UNCHANGED stop
  /\ UNCHANGED <<returned, scenario, notify_log, once, repeated, events_data, last_poll, cycleVars>>

(* ---------- linux.monitor.py: main loop ---------- *)
\* the EventIds of a batch
EventIds(evs) == { Get(evs[i], "EventId", JNull) : i \in DOMAIN evs }

\* the EventIds a polled body delivers
PolledIds(d) ==
  IF d.t = "dict" /\ "Events" \in d.has /\ d.Events.t = "list" THEN EventIds(d.Events.v) ELSE {}

\* events_data = client.get_scheduled_events(); until then events_data
\* still holds the body of the poll before
Poll ==
  /\ pc = "poll"
  /\ \E resp \in PollResponses :
       LET r == get_scheduled_events(resp)
       IN IF r.exc # "none"
            THEN /\ Crash(r.exc, "get_scheduled_events")
                 /\ last_poll' = resp.kind
                 /\ UNCHANGED <<events_data, repeated>>
            ELSE /\ events_data' = r.val
                 /\ repeated' = (PolledIds(r.val) \cap PolledIds(events_data) # {})
                 /\ last_poll' = resp.kind
                 /\ pc' = "polled"
                 /\ UNCHANGED stop
  /\ UNCHANGED <<returned, scenario, notify_log, config, once, cycleVars>>

\* main lines 329-339, the end of an iteration of while True: break in
\* single-shot mode, else time.sleep(args.poll_interval) is entered
\* (a mutant that polls again at once)
EndCycle_nosleep ==
  IF once THEN Break ELSE pc' = "poll" /\ UNCHANGED stop

\* (a mutant that sleeps only after a cycle that processed events)
EndCycle_idle_nosleep ==
  IF once THEN Break
  ELSE pc' = (IF events = <<>> THEN "poll" ELSE "sleep") /\ UNCHANGED stop

EndCycle ==
  IF once THEN Break ELSE pc' = "sleep" /\ UNCHANGED stop

\* line 169: events = events_data.get("Events", []); whether the poll
\* repeats events of the poll before is no input of it
\* (a mutant that drops the first event, the one that carries a repeated
\* id, of a batch that repeats events of the poll before)
BatchToProcess_dedup(d, rep) ==
  IF rep THEN Tail(Get(d, "Events", JList(<<>>)).v) ELSE Get(d, "Events", JList(<<>>)).v

BatchToProcess(d, rep) == Get(d, "Events", JList(<<>>)).v

\* if client.has_events(events_data): ... else: the NoEvents branch
\* (lines 317-339); entering process_scheduled_events_with_automation
\* initialises its locals (lines 169-184)
Dispatch ==
  /\ pc = "polled"
  /\ LET h == has_events(events_data)
     IN IF h.exc # "none"
          THEN /\ Crash(h.exc, "has_events")
               /\ UNCHANGED cycleVars
        ELSE IF h.val /\ DrainHooks_init(Get(config, "automation", EmptyDict)).exc # "none"
          THEN /\ Crash(DrainHooks_init(Get(config, "automation", EmptyDict)).exc, "DrainHooks")
               /\ events' = BatchToProcess(events_data, repeated)
               /\ automation_results' = FreshResults
               /\ UNCHANGED <<overall_drain_success, idx, hook, ack_success_count, ack_calls,
                              drain_log, ack_attempted, work_steps, record_log, payload,
                              ack_report>>
        ELSE IF h.val
          THEN /\ pc' = "drain"
               /\ events' = BatchToProcess(events_data, repeated)
               /\ automation_results' = FreshResults
               /\ overall_drain_success' = TRUE
               /\ idx' = 1
               /\ hook' = NoHook
               /\ ack_success_count' = 0
               /\ ack_calls' = <<>>
               /\ drain_log' = <<>>
               /\ ack_attempted' = FALSE
               /\ work_steps' = 0
               /\ record_log' = <<>>
               /\ payload' = NoPayload
               /\ ack_report' = NoReport
               /\ UNCHANGED stop
          ELSE /\ EndCycle
               /\ UNCHANGED cycleVars
  /\ UNCHANGED <<returned, scenario, notify_log, config, once, repeated, events_data, last_poll>>

\* lines 194-195: if not success: overall_drain_success = False
\* (a mutant that keeps only the last event's flag)
UpdateOverall_last(overall, success) == success

\* (a mutant that never clears the flag)
UpdateOverall_never(overall, success) == overall

UpdateOverall(overall, success) == IF ~success THEN FALSE ELSE overall

\* lines 192-200: the end of one iteration of the step 1 loop
\* (a mutant that leaves the loop for step 2 after the first event)
FinishEvent_early(success, results) ==
  /\ automation_results' =
       [automation_results EXCEPT !.drain_results = automation_results.drain_results \o results]
  /\ overall_drain_success' = UpdateOverall(overall_drain_success, success)
  /\ drain_log' = Append(drain_log, success)
  /\ hook' = NoHook
  /\ idx' = idx + 1
  /\ pc' = "step2"

\* (a mutant that leaves the loop of step 1 at the first failed drain)
FinishEvent_break(success, results) ==
  /\ automation_results' =
       [automation_results EXCEPT !.drain_results = automation_results.drain_results \o results]
  /\ overall_drain_success' = UpdateOverall(overall_drain_success, success)
  /\ drain_log' = Append(drain_log, success)
  /\ hook' = NoHook
  /\ idx' = idx + 1
  /\ pc' = IF idx = Len(events) \/ ~success THEN "step2" ELSE "drain"

FinishEvent(success, results) ==
  /\ automation_results' =
       [automation_results EXCEPT !.drain_results = automation_results.drain_results \o results]
  /\ overall_drain_success' = UpdateOverall(overall_drain_success, success)
  /\ drain_log' = Append(drain_log, success)
  /\ hook' = NoHook
  /\ idx' = idx + 1
  /\ pc' = IF idx = Len(events) THEN "step2" ELSE "drain"

\* execute_all_hooks line 56: the generic steps run after the type-specific
\* action returned (ok, msg); without dry-run they enter their try block
\* (a mutant that returns at once when the type-specific action failed)
AfterHook_shortcircuit(ok, msg) ==
  LET g == generic_preparation_steps(dry_run, FALSE)
  IN IF ~ok
       THEN /\ FinishEvent(FALSE, <<msg>>)
            /\ UNCHANGED work_steps
     ELSE IF g.work
       THEN /\ hook' = [kind |-> "generic_steps", success |-> ok, results |-> <<msg>>]
            /\ work_steps' = work_steps + 1
            /\ pc' = "generic_work"
            /\ UNCHANGED <<automation_results, overall_drain_success, idx, drain_log>>
       ELSE /\ FinishEvent(ok /\ g.ok, <<msg, g.msg>>)
            /\ UNCHANGED work_steps

AfterHook(ok, msg) ==
  LET g == generic_preparation_steps(dry_run, FALSE)
  IN IF g.work
       THEN /\ hook' = [kind |-> "generic_steps", success |-> ok, results |-> <<msg>>]
            /\ work_steps' = work_steps + 1
            /\ pc' = "generic_work"
            /\ UNCHANGED <<automation_results, overall_drain_success, idx, drain_log>>
       ELSE /\ FinishEvent(ok /\ g.ok, <<msg, g.msg>>)
            /\ UNCHANGED work_steps

\* success, results = hooks.execute_all_hooks(event), up to the try block of
\* the type-specific action; in dry-run the whole call returns here
DrainEvent ==
  /\ pc = "drain"
  /\ LET et == event_type(events[idx])
         kind == HookFor(et.val)
         r == RunHook(kind, dry_run, FALSE)
     IN IF et.exc # "none"
          THEN /\ Crash(et.exc, "execute_all_hooks")
               /\ UNCHANGED <<automation_results, overall_drain_success, idx, hook,
                              work_steps, drain_log>>
        ELSE IF r.work
          THEN /\ hook' = [kind |-> kind, success |-> FALSE, results |-> <<>>]
               /\ work_steps' = work_steps + 1
               /\ pc' = "action_work"
               /\ UNCHANGED <<automation_results, overall_drain_success, idx, drain_log, stop>>
          ELSE /\ AfterHook(r.ok, r.msg)
               /\ UNCHANGED stop
  /\ UNCHANGED <<returned, scenario, notify_log, config, once, repeated, events_data, events, ack_success_count, ack_calls,
                 last_poll, ack_attempted, ack_report, record_log, payload>>

\* the try block of the type-specific action ends: it returns or faults
ActionWork ==
  /\ pc = "action_work"
  /\ \E fault \in BOOLEAN :
       LET r == RunHook(hook.kind, dry_run, fault)
       IN AfterHook(r.ok, r.msg)
  /\ UNCHANGED <<returned, scenario, notify_log, config, once, repeated, events_data, events, ack_success_count, ack_calls,
                 last_poll, ack_attempted, ack_report, record_log, payload, stop>>

\* the try block of generic_preparation_steps ends; execute_all_hooks returns
GenericWork ==
  /\ pc = "generic_work"
  /\ \E fault \in BOOLEAN :
       LET g == generic_preparation_steps(dry_run, fault)
       IN FinishEvent(hook.success /\ g.ok, Append(hook.results, g.msg))
  /\ UNCHANGED <<returned, scenario, notify_log, config, once, repeated, events_data, events, ack_success_count, ack_calls,
                 last_poll, ack_attempted, ack_report, work_steps, record_log, payload, stop>>

\* lines 222-224: automation_results["drain_results"].append(<skip message>)
\* (a mutant that skips silently)
SkipResults_silent(results) == results

SkipResults(results) ==
  [results EXCEPT !.drain_results = Append(results.drain_results, SkipMessage)]

\* what step 2 prints about the acknowledgment: line 216 when all events
\* were acknowledged, line 219 "Only acknowledged {count}/{total} event(s)"
\* (a mutant that prints no counts)
AckReport_nocount(count, n) ==
  IF count = n THEN [kind |-> "all", count |-> n, total |-> n]
  ELSE [kind |-> "only", count |-> 0, total |-> 0]

AckReport(count, n) ==
  IF count = n THEN [kind |-> "all", count |-> n, total |-> n]
  ELSE [kind |-> "only", count |-> count, total |-> n]

\* line 221: "Skipping early acknowledgment due to drain hook failures"
SkipReport == [kind |-> "skipped", count |-> 0, total |-> 0]

\* step 2, line 204: the gate, and lines 221-224 when it is closed
AckGate ==
  /\ pc = "step2"
  /\ IF overall_drain_success
       THEN /\ ack_attempted' = TRUE
            /\ ack_success_count' = 0
            /\ idx' = 1
            /\ pc' = "ack"
            /\ UNCHANGED <<automation_results, ack_report>>
       ELSE /\ automation_results' = SkipResults(automation_results)
            /\ ack_report' = SkipReport
            /\ pc' = "step3"
            /\ UNCHANGED <<ack_attempted, ack_success_count, idx>>
  /\ UNCHANGED <<returned, scenario, notify_log, config, once, repeated, events_data, events, overall_drain_success, hook,
                 ack_calls, drain_log, last_poll, work_steps, record_log, payload, stop>>

\* lines 210-211: if client.acknowledge_event(event_id): ack_success_count += 1
\* (a mutant that counts every call)
CountAck_always(count, ok) == count + 1

CountAck(count, ok) == IF ok THEN count + 1 ELSE count

\* lines 209-211: one acknowledge_event call
AckEvent ==
  /\ pc = "ack"
  /\ \E resp \in AckResponses :
       /\ ack_calls' = Append(ack_calls, [EventId |-> Get(events[idx], "EventId", JNull),
                                          ok |-> acknowledge_event(resp)])
       /\ ack_success_count' = CountAck(ack_success_count, acknowledge_event(resp))
  /\ pc' = "ack_sleep"
  /\ UNCHANGED <<returned, scenario, notify_log, config, once, repeated, events_data, events, automation_results,
                 overall_drain_success, idx, hook, drain_log, last_poll, ack_attempted, ack_report,
                 work_steps, record_log, payload, stop>>

\* line 214: if ack_success_count == len(events)
\* (a mutant that is content with one acknowledged event)
AllAcknowledged_any(count, n) == count > 0

AllAcknowledged(count, n) == count = n

\* line 212, time.sleep(1), and after the last event lines 214-219
AckSleep ==
  /\ pc = "ack_sleep"
  /\ idx' = idx + 1
  /\ IF idx = Len(events)
       THEN /\ automation_results' =
                 [automation_results EXCEPT
                    !.early_ack_success = AllAcknowledged(ack_success_count, Len(events))]
            /\ ack_report' = AckReport(ack_success_count, Len(events))
            /\ pc' = "step3"
       ELSE /\ pc' = "ack"
            /\ UNCHANGED <<automation_results, ack_report>>
  /\ UNCHANGED <<returned, scenario, notify_log, config, once, repeated, events_data, events, overall_drain_success, hook,
                 ack_success_count, ack_calls, drain_log, last_poll, ack_attempted,
                 work_steps, record_log, payload, stop>>

\* line 232: automation_results["servicenow_record_success"] = record_success
\* (a mutant that also withdraws the early-ack flag when the record failed)
RecordUpdate_withdraw(results, record_success) ==
  [results EXCEPT !.servicenow_record_success = record_success,
                  !.early_ack_success = results.early_ack_success /\ record_success]

RecordUpdate(results, record_success) ==
  [results EXCEPT !.servicenow_record_success = record_success]

\* lines 228-237 read config["servicenow"] and leave config as it is
\* (a mutant that drops the block after a record that failed)
ConfigAfterRecord_drop(cfg, record_success) ==
  IF record_success THEN cfg ELSE Pop(cfg, "servicenow")

ConfigAfterRecord(cfg, record_success) == cfg

\* step 3 with a servicenow block, up to requests.post (lines 228-229 and
\* 60-129 of the recorder): the results are handed to the recorder and the
\* payload is built; then the POST is sent and main waits for the answer
Record ==
  /\ pc = "step3"
  /\ HasRecorder
  /\ record_log' = Append(record_log, automation_results)
  /\ LET req == RecordRequest(events, automation_results)
     IN /\ payload' = req.payload
        /\ IF req.exc # "none"
             THEN Crash(req.exc, "create_servicenow_automation_record")
             ELSE pc' = "record_wait" /\ UNCHANGED stop
  /\ UNCHANGED <<returned, scenario, notify_log, config, once, repeated, events_data, events,
                 automation_results, overall_drain_success, idx, hook, ack_success_count,
                 ack_calls, drain_log, last_poll, ack_attempted, ack_report, work_steps>>

\* the answer to the POST (lines 130-151 of the recorder) and lines 229-237:
\* the recorder returns and servicenow_record_success is set, or the
\* recorder raises
RecordAnswer ==
  /\ pc = "record_wait"
  /\ \E resp \in RecordResponses :
       LET r == create_servicenow_automation_record(events, automation_results, resp)
       IN /\ config' = ConfigAfterRecord(config, r.val)
          /\ IF r.exc # "none"
               THEN /\ Crash(r.exc, "create_servicenow_automation_record")
                    /\ UNCHANGED automation_results
               ELSE /\ automation_results' = RecordUpdate(automation_results, r.val)
                    /\ EndCycle
  /\ UNCHANGED <<returned, scenario, notify_log, once, repeated, events_data, events,
                 overall_drain_success, idx, hook, ack_success_count, ack_calls, drain_log, last_poll,
                 ack_attempted, ack_report, work_steps, record_log, payload>>

\* step 3 without a servicenow block (lines 238-239)
SkipRecord ==
  /\ pc = "step3"
  /\ ~HasRecorder
  /\ EndCycle
  /\ UNCHANGED <<returned, scenario, notify_log, config, once, repeated, events_data, last_poll, cycleVars>>

\* time.sleep(args.poll_interval); the locals of the finished cycle are gone
Sleep ==
  /\ pc = "sleep"
  /\ pc' = "poll"
  /\ events' = <<>>
  /\ automation_results' = FreshResults
  /\ overall_drain_success' = TRUE
  /\ idx' = 0
  /\ hook' = NoHook
  /\ ack_success_count' = 0
  /\ ack_calls' = <<>>
  /\ drain_log' = <<>>
  /\ ack_attempted' = FALSE
  /\ work_steps' = 0
  /\ record_log' = <<>>
  /\ payload' = NoPayload
  /\ ack_report' = NoReport
  /\ notify_log' = <<>>
  /\ UNCHANGED <<returned, scenario, config, once, repeated, events_data, last_poll, stop>>

\* Ctrl+C.  While main is inside its try block (lines 313-342)
\* KeyboardInterrupt is raised wherever the loop is; no except Exception
\* catches it, main's except KeyboardInterrupt does and main returns.
\* Before the try block (lines 258-311: argument parsing, load_config, the
\* validation, the prints) no handler is in reach: the KeyboardInterrupt
\* leaves main and the interpreter ends the process on SIGINT, status 130
Interrupt ==
  /\ pc # "exited"
  /\ pc' = "exited"
  /\ stop' = IF pc = "startup"
               THEN [reason |-> "uncaught", code |-> 130, exc |-> "KeyboardInterrupt",
                     origin |-> pc]
               ELSE [reason |-> "KeyboardInterrupt", code |-> 0, exc |-> "KeyboardInterrupt",
                     origin |-> pc]
  /\ UNCHANGED <<returned, scenario, notify_log, config, once, repeated, events_data, last_poll, cycleVars>>

Next ==
  \/ Startup
  \/ Poll
  \/ Dispatch
  \/ DrainEvent
  \/ ActionWork
  \/ GenericWork
  \/ AckGate
  \/ AckEvent
  \/ AckSleep
  \/ Record
  \/ RecordAnswer
  \/ SkipRecord
  \/ Sleep
  \/ Interrupt

Spec == Init /\ [][Next]_vars

\* scenario 3 started on a file that has a servicenow block, complete or
\* not: after startup the block is absent only if main has dropped it
InitOptional == Init /\ "servicenow" \in DOMAIN config

SpecOptional == InitOptional /\ [][Next]_vars

(* ---------- scenarios 1 and 2: the notification loops ---------- *)
\* the files of scenario 1: with a logic_app_url, with an empty one, without,
\* the empty file
ConfigFiles1 ==
  { [logic_app_url |-> Str("set")], [logic_app_url |-> Str("")], [poll_interval |-> Str("set")],
    EmptyDict }

\* the files of scenario 2: with a servicenow block, without, the empty file
ConfigFiles2 ==
  { [servicenow |-> b] : b \in SnowBlocks } \cup { [poll_interval |-> Str("set")], EmptyDict }

InitNotify ==
  /\ scenario \in {1, 2}
  /\ returned = PyNone
  /\ pc = "startup"
  /\ config \in (IF scenario = 1 THEN ConfigFiles1 ELSE ConfigFiles2)
  /\ once \in BOOLEAN
  /\ events_data = PyNone
  /\ events = <<>>
  /\ automation_results = FreshResults
  /\ overall_drain_success = TRUE
  /\ idx = 0
  /\ hook = NoHook
  /\ ack_success_count = 0
  /\ ack_calls = <<>>
  /\ drain_log = <<>>
  /\ last_poll = "none"
  /\ ack_attempted = FALSE
  /\ work_steps = 0
  /\ record_log = <<>>
  /\ payload = NoPayload
  /\ notify_log = <<>>
  /\ ack_report = NoReport
  /\ repeated = FALSE
  /\ stop = Running

\* main of scenario 1 (lines 125-141) and of scenario 2 (lines 189-212):
\* load the file (if not config: sys.exit(1)), validate the required keys,
\* sys.exit(1) on a failure
StartupNotify ==
  /\ pc = "startup"
  /\ scenario \in {1, 2}
  /\ \E load \in ConfigLoads :
       IF Falsy(load_config(load, config))
         THEN ConfigExit(NoConfig(load), "load_config")
       ELSE IF scenario = 1 /\ ~validate_config(config, {"logic_app_url"})
         THEN ConfigExit("missing_keys", "validate_config")
       ELSE IF scenario = 2 /\ ~validate_config(config, {"servicenow"})
         THEN ConfigExit("missing_keys", "validate_config")
       ELSE IF scenario = 2 /\ ~validate_config(config.servicenow, snow_required)
         THEN ConfigExit("missing_keys", "validate_config")
         ELSE pc' = "poll" /\ UNCHANGED stop
  /\ UNCHANGED <<returned, scenario, notify_log, config, once, repeated, events_data, last_poll, cycleVars>>

\* if client.has_events(events_data): events = client.get_events_list(events_data),
\* the summaries are printed and process_scheduled_events is entered;
\* else the NoEvents branch
DispatchNotify ==
  /\ pc = "polled"
  /\ scenario \in {1, 2}
  /\ LET h == has_events(events_data)
     IN IF h.exc # "none"
          THEN /\ Crash(h.exc, "has_events")
               /\ UNCHANGED <<events, notify_log>>
        ELSE IF h.val
          THEN /\ pc' = "notify"
               /\ events' = get_events_list(events_data).v
               /\ notify_log' = <<>>
               /\ UNCHANGED stop
          ELSE /\ EndCycle
               /\ UNCHANGED <<events, notify_log>>
  /\ UNCHANGED <<returned, scenario, config, once, repeated, events_data, last_poll,
                 automation_results, overall_drain_success, idx, hook, ack_success_count,
                 ack_calls, drain_log, ack_attempted, work_steps, record_log, payload,
                 ack_report>>

\* send_to_logic_app: True after an answer raise_for_status accepts (the
\* body is not read), False on a requests.RequestException
send_to_logic_app(resp) ==
  [exc |-> "none", val |-> resp \notin {"transport_error", "http_error"},
   posted |-> resp # "transport_error"]

\* create_servicenow_incident: the event details are formatted before the
\* try block; inside it the POST, raise_for_status, response.json() and
\* result.get("result", {}).get(...)
create_servicenow_incident(evs, resp) ==
  IF \E i \in DOMAIN evs : ~CanFormat(evs[i])
    THEN [exc |-> "TypeError", val |-> FALSE, posted |-> FALSE]
  ELSE IF resp = "created" THEN [exc |-> "none", val |-> TRUE, posted |-> TRUE]
  ELSE IF resp = "bad_shape" THEN [exc |-> "AttributeError", val |-> FALSE, posted |-> TRUE]
  ELSE [exc |-> "none", val |-> FALSE, posted |-> resp # "transport_error"]

\* process_scheduled_events: one notification for the batch
Notify ==
  /\ pc = "notify"
  /\ \E resp \in RecordResponses :
       LET r == IF scenario = 1 THEN send_to_logic_app(resp)
                ELSE create_servicenow_incident(events, resp)
       IN /\ notify_log' =
               IF r.exc = "TypeError" THEN notify_log
               ELSE Append(notify_log, [count |-> Len(events), posted |-> r.posted, ok |-> r.val])
          /\ IF r.exc # "none"
               THEN Crash(r.exc, "process_scheduled_events")
               ELSE EndCycle
  /\ UNCHANGED <<returned, scenario, config, once, repeated, events_data, last_poll, events,
                 automation_results, overall_drain_success, idx, hook, ack_success_count,
                 ack_calls, drain_log, ack_attempted, work_steps, record_log, payload,
                 ack_report>>

NextNotify ==
  \/ StartupNotify
  \/ Poll
  \/ DispatchNotify
  \/ Notify
  \/ Sleep
  \/ Interrupt

SpecNotify == InitNotify /\ [][NextNotify]_vars

(* ---------- imds_client.py: monitor_events ---------- *)
\* monitor_events(client, poll_interval) is entered
InitMonitor ==
  /\ scenario = 0
  /\ returned = PyNone
  /\ pc = "poll"
  /\ config = [poll_interval |-> Str("set")]
  /\ once = FALSE
  /\ events_data = PyNone
  /\ events = <<>>
  /\ automation_results = FreshResults
  /\ overall_drain_success = TRUE
  /\ idx = 0
  /\ hook = NoHook
  /\ ack_success_count = 0
  /\ ack_calls = <<>>
  /\ drain_log = <<>>
  /\ last_poll = "none"
  /\ ack_attempted = FALSE
  /\ work_steps = 0
  /\ record_log = <<>>
  /\ payload = NoPayload
  /\ notify_log = <<>>
  /\ ack_report = NoReport
  /\ repeated = FALSE
  /\ stop = Running

\* lines 150-159: if client.has_events(events_data): the summaries are
\* printed and events_data is returned; else the loop goes to its sleep;
\* an exception raised here is caught by except Exception (lines 166-168),
\* which prints and sleeps
MonitorCheck ==
  /\ pc = "polled"
  /\ scenario = 0
  /\ LET h == has_events(events_data)
         l == get_events_list(events_data)
     IN IF h.exc # "none"
          THEN pc' = "retry_sleep" /\ UNCHANGED <<returned, stop>>
        ELSE IF h.val /\ \E i \in DOMAIN l.v : format_event_summary(l.v[i]).exc # "none"
          THEN pc' = "retry_sleep" /\ UNCHANGED <<returned, stop>>
        ELSE IF h.val
          THEN /\ pc' = "exited"
               /\ returned' = events_data
               /\ stop' = [reason |-> "returned", code |-> 0, exc |-> "none", origin |-> "none"]
          ELSE pc' = "sleep" /\ UNCHANGED <<returned, stop>>
  /\ UNCHANGED <<scenario, notify_log, config, once, repeated, events_data, last_poll, cycleVars>>

\* line 168: time.sleep(poll_interval) in the except Exception clause ends
MonitorRetry ==
  /\ pc = "retry_sleep"
  /\ pc' = "poll"
  /\ UNCHANGED <<returned, scenario, notify_log, config, once, repeated, events_data, last_poll,
                 stop, cycleVars>>

\* Ctrl+C: inside the try block (lines 147-161) except KeyboardInterrupt
\* breaks out of the loop and the function returns None; in the sleep of
\* the except Exception clause no handler is in reach and the
\* KeyboardInterrupt leaves monitor_events
MonitorInterrupt ==
  /\ pc \in {"poll", "polled", "sleep", "retry_sleep"}
  /\ scenario = 0
  /\ pc' = "exited"
  /\ stop' = IF pc = "retry_sleep"
               THEN [reason |-> "raised", code |-> 1, exc |-> "KeyboardInterrupt", origin |-> pc]
               ELSE [reason |-> "KeyboardInterrupt", code |-> 0, exc |-> "KeyboardInterrupt",
                     origin |-> pc]
  /\ UNCHANGED <<returned, scenario, notify_log, config, once, repeated, events_data, last_poll,
                 cycleVars>>

NextMonitor ==
  \/ Poll
  \/ MonitorCheck
  \/ Sleep
  \/ MonitorRetry
  \/ MonitorInterrupt

SpecMonitor == InitMonitor /\ [][NextMonitor]_vars

\* the continuous loop without cancellation, on a file whose automation
\* value is a block: no --once, no Ctrl+C, and the process takes its next
\* step whenever it has one (every call it makes returns)
LiveInit == Init /\ ~once /\ "t" \notin DOMAIN Get(config, "automation", EmptyDict)

LiveNext ==
  \/ Startup
  \/ Poll
  \/ Dispatch
  \/ DrainEvent
  \/ ActionWork
  \/ GenericWork
  \/ AckGate
  \/ AckEvent
  \/ AckSleep
  \/ Record
  \/ RecordAnswer
  \/ SkipRecord
  \/ Sleep

LiveSpec == LiveInit /\ [][LiveNext]_vars /\ WF_vars(LiveNext)

TypeOK ==
  /\ pc \in {"startup", "poll", "polled", "drain", "action_work", "generic_work", "step2",
              "ack", "ack_sleep", "step3", "record_wait", "notify", "sleep", "retry_sleep", "exited"}
  /\ scenario \in {0, 1, 2, 3}
  /\ scenario = 3 /\ pc # "startup" /\ stop.reason \notin {"config", "uncaught"} =>
       config \in Configs
  /\ Len(events) <= MaxEvents
  /\ work_steps <= 2 * MaxEvents

(* ---------- properties ---------- *)
\* step 2 of the cycle has run to its end
Step2Done ==
  \/ pc \in {"step3", "record_wait", "sleep"}
  \/ pc = "exited" /\ stop.reason = "once" /\ events # <<>>
  \/ pc = "exited" /\ stop.origin \in {"step3", "record_wait", "sleep",
                                         "create_servicenow_automation_record"}

AllDrained == \A i \in DOMAIN drain_log : drain_log[i]
AckedIds == [i \in DOMAIN ack_calls |-> ack_calls[i].EventId]
BatchIds == [i \in DOMAIN events |-> events[i].EventId]
SuccessfulAcks == Cardinality({i \in DOMAIN ack_calls : ack_calls[i].ok})

\* C1: all-or-nothing acknowledgment gate.  While a drain result is a
\* failure no acknowledge_event call is made; the calls made are always the
\* first events of the batch, one call each, in batch order; once step 2 has
\* ended, every event was acknowledged-attempted if every drain succeeded
\* (whatever the outcome of the single calls) and none otherwise.
C1_AckGate ==
  /\ ~AllDrained => ack_calls = <<>>
  /\ Len(ack_calls) <= Len(events)
  /\ AckedIds = SubSeq(BatchIds, 1, Len(ack_calls))
  /\ ack_calls # <<>> => Len(drain_log) = Len(events)
  /\ Step2Done => IF AllDrained THEN AckedIds = BatchIds ELSE ack_calls = <<>>

\* C1 witness: a batch of two drained events, both acknowledge calls made
\* although one of them failed
C1_Witness ==
  /\ pc = "step3" /\ Len(events) = 2 /\ AllDrained
  /\ AckedIds = <<1, 2>> /\ ~ack_calls[1].ok /\ ack_calls[2].ok

\* C2: at the end of step 2 (and from then on) early_ack_success is true iff
\* the acknowledgment was attempted and as many acknowledge_event calls
\* succeeded as the batch has events; before, and when skipped, it is false.
C2_EarlyAckFlag ==
  /\ Step2Done =>
       (automation_results.early_ack_success
          <=> (ack_attempted /\ SuccessfulAcks = Len(events)))
  /\ ~Step2Done => ~automation_results.early_ack_success

\* C2 witness: one of two acknowledgments succeeded, the flag is false
C2_Witness ==
  /\ pc = "step3" /\ ack_attempted /\ Len(events) = 2 /\ SuccessfulAcks = 1
  /\ ~automation_results.early_ack_success

\* the dry-run-labelled messages of drain_hooks.py
DryRunMessages ==
  { "[DRY RUN] Reboot preparation completed",
    "[DRY RUN] Redeploy preparation completed",
    "[DRY RUN] Preemption preparation completed",
    "[DRY RUN] Generic preparation completed",
    "[DRY RUN] Generic steps completed" }

\* an event whose EventType is a string or is missing
ListedType(e) == "EventType" \notin DOMAIN e \/ e.EventType.t = "str"

\* C3: with dry-run set no try block of a drain action is entered, every
\* execute_all_hooks call that returned reported success with two messages,
\* every collected message is a dry-run-labelled one, and the call returns
\* for every event whose type is a string (recognised or not) or is missing.
C3_DryRun ==
  dry_run =>
    /\ work_steps = 0
    /\ hook.kind = "none"
    /\ \A i \in DOMAIN drain_log : drain_log[i]
    /\ Len(automation_results.drain_results) = 2 * Len(drain_log)
    /\ \A i \in DOMAIN automation_results.drain_results :
         automation_results.drain_results[i] \in DryRunMessages
    /\ stop.origin = "execute_all_hooks" => ~ListedType(events[idx])

\* C3 witness: a dry-run drain of an event without EventType and of a
\* terminate event has ended
C3_Witness ==
  /\ dry_run /\ pc = "step2" /\ Len(drain_log) = 2
  /\ "EventType" \notin DOMAIN events[1]
  /\ "EventType" \in DOMAIN events[2] /\ events[2].EventType = Str("terminate")

\* C4: in a cycle run with dry-run set no acknowledging POST is sent to the
\* feed and nothing is posted to the system of record.
C4_DryRunNoSideEffect ==
  dry_run => ack_calls = <<>> /\ record_log = <<>>

\* C5: execute_all_hooks never raises, whatever the event's EventType:
\* the process never ends on a fault coming out of execute_all_hooks.
C5_HooksNeverRaise ==
  stop.origin # "execute_all_hooks"

\* C6: once entered, the loop ends only by cancellation or by a completed
\* single-shot run, never by a fault (the faults of the configuration, at
\* startup and in the DrainHooks constructor, set aside).
C6_FaultNeverTerminates ==
  pc = "exited" /\ stop.reason \notin {"config", "uncaught"} /\ stop.origin # "DrainHooks" =>
    stop.reason \in {"KeyboardInterrupt", "once"}

\* C7: a process stopped by the stop signal has no drain action that was
\* started and has no outcome yet.
C7_NoAbandonedAction ==
  pc = "exited" /\ stop.reason = "KeyboardInterrupt" => hook.kind = "none"

\* C8: a step from step 3 (record created, failed or skipped) leaves
\* drain_results, the overall drain success, early_ack_success and the
\* acknowledgments sent as they were.
C8_RecorderFrame ==
  [][ (pc = "step3" \/ pc = "record_wait") =>
        /\ automation_results'.drain_results = automation_results.drain_results
        /\ automation_results'.early_ack_success = automation_results.early_ack_success
        /\ overall_drain_success' = overall_drain_success
        /\ drain_log' = drain_log
        /\ ack_calls' = ack_calls
    ]_vars

\* C8 witness: the record call failed after every event was acknowledged
C8_Witness ==
  /\ pc = "sleep" /\ record_log # <<>>
  /\ ~automation_results.servicenow_record_success
  /\ automation_results.early_ack_success

\* C9: in continuous mode the process never ends on a failure of the
\* record call.
C9_RecorderNeverAborts ==
  ~once => stop.origin # "create_servicenow_automation_record"

\* C10: the poll never raises; a poll that failed (network error, timeout,
\* non-2xx status, unparsable body) yields None, for which has_events is
\* false, and the step that follows takes the NoEvents branch: no
\* processing, the sleep in continuous mode, the normal end with --once.
C10_FailedPollIsNoEvents ==
  [][/\ pc = "poll" => stop'.reason # "Exception"
     /\ pc = "poll" /\ last_poll' \in PollFailures =>
          pc' = "exited" \/ events_data' = PyNone
     /\ pc = "polled" /\ last_poll \in PollFailures =>
          /\ has_events(events_data) = [exc |-> "none", val |-> FALSE]
          /\ stop'.reason # "Exception"
          /\ pc' \in {"sleep", "exited"}
          /\ pc' = "sleep" <=> (~once /\ stop'.reason = "running")
          /\ pc' = "exited" /\ ~once => stop'.reason = "KeyboardInterrupt"
          /\ UNCHANGED <<events, ack_calls, work_steps, record_log, payload>>]_vars

\* C10 witness: the loop sleeps after a poll whose body could not be parsed
C10_Witness ==
  pc = "sleep" /\ last_poll = "bad_json" /\ events_data = PyNone

\* the poll just made is one of the no-event outcomes: a failed poll, a
\* body without an Events key (such as {}), or an empty Events list
NoEventsPolled ==
  /\ pc = "polled"
  /\ \/ last_poll \in PollFailures
     \/ /\ last_poll = "ok"
        /\ \/ "Events" \notin events_data.has
           \/ /\ events_data.Events.t = "list"
              /\ events_data.Events.v = <<>>

\* C11: a cycle whose poll yields no events (failed poll, no Events key,
\* empty Events list) is seen as having no events by has_events and
\* get_events_list, runs no drain action, makes no acknowledge call and no
\* record call, and in continuous mode goes to the sleep of the poll
\* interval; no poll is made in the loop but after that sleep.
C11_NoEventsCycle ==
  [][ /\ NoEventsPolled =>
          /\ has_events(events_data) = [exc |-> "none", val |-> FALSE]
          /\ get_events_list(events_data) = JList(<<>>)
          /\ work_steps = 0 /\ ack_calls = <<>> /\ record_log = <<>> /\ drain_log = <<>>
          /\ UNCHANGED <<events, work_steps, ack_calls, record_log, payload, drain_log>>
          /\ pc' \in {"sleep", "exited"}
          /\ ~once /\ stop'.reason # "KeyboardInterrupt" => pc' = "sleep"
          /\ pc' = "exited" => stop'.reason \in {"once", "KeyboardInterrupt"}
      /\ pc' = "poll" => pc \in {"startup", "sleep"}
    ]_vars

\* C11 witness: the loop sleeps after a poll that returned {}
C11_Witness ==
  /\ pc = "sleep" /\ ~once /\ last_poll = "ok"
  /\ events_data.has = {}
  /\ work_steps = 0 /\ ack_calls = <<>> /\ record_log = <<>>

\* C12: in single-shot mode the loop never sleeps, and a run that has
\* polled and was not cancelled ends with exit code 0, having finished the
\* one cycle of its batch.
C12_SingleShot ==
  once =>
    /\ pc # "sleep"
    /\ pc = "exited" /\ last_poll # "none" /\ stop.reason # "KeyboardInterrupt"
         /\ stop.origin # "DrainHooks" =>
         /\ stop.code = 0
         /\ events # <<>> => Len(drain_log) = Len(events)

\* the cycle of a batch has run to its end
CycleDone ==
  /\ events # <<>>
  /\ pc = "sleep" \/ (pc = "exited" /\ stop.reason = "once")

\* C13: stage order inside a cycle.  Acknowledging starts only when every
\* event of the batch has its drain outcome and no drain action is running;
\* the recorder is called only when step 2 is over (every acknowledge call
\* of an attempted acknowledgment made), at most once per cycle and exactly
\* once in a finished cycle with a servicenow block, never without one; it
\* is handed results that cover every event of the batch and that are the
\* final ones but for the record flag itself.
C13_StageOrder ==
  /\ pc \in {"ack", "ack_sleep"} \/ ack_calls # <<>> =>
       /\ Len(drain_log) = Len(events)
       /\ hook = NoHook
       /\ pc \notin {"drain", "action_work", "generic_work"}
  /\ record_log # <<>> =>
       /\ pc \in {"record_wait", "sleep", "exited"}
       /\ HasRecorder
       /\ Len(drain_log) = Len(events)
       /\ ack_attempted => Len(ack_calls) = Len(events)
       /\ Len(record_log[1].drain_results) >= 2 * Len(events)
       /\ record_log[1].drain_results = automation_results.drain_results
       /\ record_log[1].early_ack_success = automation_results.early_ack_success
  /\ Len(record_log) <= 1
  /\ CycleDone => Len(record_log) = IF HasRecorder THEN 1 ELSE 0

\* C13 witness: a finished cycle of two events, four drain actions run,
\* both events acknowledged and one record made
C13_Witness ==
  /\ pc = "sleep" /\ Len(events) = 2 /\ work_steps = 4
  /\ Len(ack_calls) = 2 /\ Len(record_log) = 1

\* the messages of the except returns of the drain actions
ActionFailMessages ==
  { "Reboot preparation failed: fault", "Redeploy preparation failed: fault",
    "Preemption preparation failed: fault", "Generic preparation failed: fault" }
StepsFailMessage == "Generic preparation steps failed: fault"
FailMessages == ActionFailMessages \cup {StepsFailMessage}

\* the two messages execute_all_hooks returned for the i-th event
Msg1(i) == automation_results.drain_results[2 * i - 1]
Msg2(i) == automation_results.drain_results[2 * i]
Pair(i) == <<Msg1(i), Msg2(i)>>

\* C14: the success flag execute_all_hooks returned for an event is true
\* iff neither its type-specific action nor its generic steps failed (it is
\* the flag and the pair of messages execute_all_hooks computes for that
\* event under the faults the messages tell), and overall_drain_success is the conjunction
\* of the flags returned so far, hence after step 1 of all of the batch.
C14_OverallIsConjunction ==
  /\ \A i \in DOMAIN drain_log :
       /\ drain_log[i] <=> (Msg1(i) \notin FailMessages /\ Msg2(i) \notin FailMessages)
       /\ execute_all_hooks(events[i], dry_run, Msg1(i) \in FailMessages,
                            Msg2(i) \in FailMessages)
            = [exc |-> "none", success |-> drain_log[i], results |-> Pair(i)]
  /\ overall_drain_success <=> AllDrained

\* C14 witness: step 1 is over for two events; the first failed in its
\* generic steps only, the second succeeded, and the overall flag is false
C14_Witness ==
  /\ pc = "step2" /\ drain_log = <<FALSE, TRUE>>
  /\ Msg1(1) \notin FailMessages /\ Msg2(1) = StepsFailMessage
  /\ ~overall_drain_success

\* the type-specific action the claim assigns to an event of a listed type
ExpectedAction(e) ==
  IF "EventType" \notin DOMAIN e THEN "generic"
  ELSE CASE e.EventType.v \in {"reboot", "Reboot"} -> "reboot"
         [] e.EventType.v = "REDEPLOY" -> "redeploy"
         [] e.EventType.v = "preempt" -> "preempt"
         [] OTHER -> "generic"

\* the messages a type-specific action can return
ActionKinds == {"reboot", "redeploy", "preempt", "generic"}
ActionMessages == [k \in ActionKinds |-> { RunHook(k, d, f).msg : d \in BOOLEAN, f \in BOOLEAN }]
AllActionMessages == UNION { ActionMessages[k] : k \in ActionKinds }

\* C15: for an event whose EventType is a string or is missing,
\* execute_all_hooks runs one type-specific action, the one of the
\* lower-cased type (reboot, redeploy, preempt in any letter case, the
\* generic-event action otherwise): the action at work and the first message
\* returned are that action's, the second message is no type-specific
\* action's; the call does not raise, and the drain of an event fails only
\* with a failure message of an action that faulted.
C15_DispatchByType ==
  /\ pc = "action_work" => hook.kind = ExpectedAction(events[idx])
  /\ \A i \in DOMAIN drain_log :
       ListedType(events[i]) =>
         /\ Msg1(i) \in ActionMessages[ExpectedAction(events[i])]
         /\ Msg2(i) \notin AllActionMessages
         /\ ~drain_log[i] => Msg1(i) \in FailMessages \/ Msg2(i) \in FailMessages
  /\ stop.origin = "execute_all_hooks" => ~ListedType(events[idx])

\* C15 witness: a REDEPLOY event ran the redeploy action and a terminate
\* event ran the generic-event action, and both drains succeeded
C15_Witness ==
  /\ Len(drain_log) = 2 /\ drain_log = <<TRUE, TRUE>> /\ ~dry_run
  /\ "EventType" \in DOMAIN events[1] /\ events[1].EventType = Str("REDEPLOY")
  /\ Msg1(1) = "Redeploy preparation completed successfully"
  /\ "EventType" \in DOMAIN events[2] /\ events[2].EventType = Str("terminate")
  /\ Msg1(2) = "Generic preparation completed successfully"

\* the messages generic_preparation_steps can return
StepsMessages == { generic_preparation_steps(d, f).msg : d \in BOOLEAN, f \in BOOLEAN }

\* C16: while step 1 runs and when it has ended, drain_results holds two
\* messages per drained event, in batch order: the i-th pair is the message
\* of the type-specific action of the i-th event followed by the message of
\* the generic steps, also when the first of them reports a failure;
\* without dry-run both try blocks were entered for every drained event.
\* After step 1 the length is twice the number of events.
C16_ResultOrder ==
  /\ pc \in {"drain", "action_work", "generic_work", "step2"} =>
       Len(automation_results.drain_results) = 2 * Len(drain_log)
  /\ pc = "step2" => Len(automation_results.drain_results) = 2 * Len(events)
  /\ pc \in {"drain", "step2"} /\ ~dry_run => work_steps = 2 * Len(drain_log)
  /\ \A i \in DOMAIN drain_log :
       /\ Msg1(i) \in ActionMessages[HookFor(event_type(events[i]).val)]
       /\ Msg2(i) \in StepsMessages

\* C16 witness: step 1 has ended for two events; the type-specific action
\* of the first failed and its generic steps still ran and succeeded
C16_Witness ==
  /\ pc = "step2" /\ Len(events) = 2 /\ work_steps = 4
  /\ Len(automation_results.drain_results) = 4
  /\ Msg1(1) \in ActionFailMessages
  /\ Msg2(1) = "Generic preparation steps completed"

Last(q) == q[Len(q)]
HasSkipMessage(q) == \E i \in DOMAIN q : q[i] = SkipMessage

\* C17: once step 2 has ended with the acknowledgment skipped (some drain
\* failed), early_ack_success is false, step 2 has reported the skip, and
\* the skip message is the last entry of drain_results, after the two
\* messages of every event; the results handed to the recorder end with it.
\* When the acknowledgment was attempted, drain_results holds no skip
\* message, neither do the results handed to the recorder.
C17_SkipMessage ==
  /\ Step2Done /\ ~overall_drain_success =>
       /\ ~ack_attempted /\ ack_calls = <<>>
       /\ ~automation_results.early_ack_success
       /\ ack_report = SkipReport
       /\ Len(automation_results.drain_results) = 2 * Len(events) + 1
       /\ Last(automation_results.drain_results) = SkipMessage
  /\ record_log # <<>> /\ ~overall_drain_success =>
       /\ Last(record_log[1].drain_results) = SkipMessage
       /\ ~record_log[1].early_ack_success
  /\ ack_attempted =>
       /\ ~HasSkipMessage(automation_results.drain_results)
       /\ ack_report # SkipReport
       /\ record_log # <<>> => ~HasSkipMessage(record_log[1].drain_results)

\* C17 witness: a cycle with a failed drain has ended; no acknowledge call
\* was made and the recorder was handed results ending with the skip message
C17_Witness ==
  /\ pc = "sleep" /\ ~overall_drain_success /\ ack_calls = <<>>
  /\ record_log # <<>> /\ Last(record_log[1].drain_results) = SkipMessage

\* C18: once step 2 has ended with the acknowledgment attempted and fewer
\* acknowledge calls succeeded than the batch has events, early_ack_success
\* is false and step 2 has printed the "only k/n" message with k the number
\* of calls that succeeded and n the number of events, so the message of a
\* cycle with 0 < k < n differs from the one of a cycle with k = 0; the
\* "all acknowledged" message is printed only when every call succeeded.
C18_PartialAckReported ==
  Step2Done /\ ack_attempted =>
    /\ SuccessfulAcks < Len(events) =>
         /\ ~automation_results.early_ack_success
         /\ ack_report = [kind |-> "only", count |-> SuccessfulAcks, total |-> Len(events)]
    /\ ack_report.kind = "all" <=> SuccessfulAcks = Len(events)

\* C18 witness: step 2 has ended with one of two events acknowledged
C18_Witness ==
  /\ pc = "step3" /\ ack_attempted /\ Len(events) = 2 /\ SuccessfulAcks = 1
  /\ ack_report = [kind |-> "only", count |-> 1, total |-> 2]

\* the process is inside the cycle of a batch
InCycle ==
  pc \in {"drain", "action_work", "generic_work", "step2", "ack", "ack_sleep", "step3",
          "record_wait"}

\* C19: the batch a cycle processes is the whole Events list of its poll,
\* the events the poll before had delivered (and its cycle had processed)
\* included, and when the cycle has ended each event was drained again
\* (both of its drain actions entered unless dry-run), acknowledged again
\* if every drain of the cycle succeeded, and recorded again if a
\* servicenow block is configured.
C19_NoDeduplication ==
  /\ InCycle \/ CycleDone => events = events_data.Events.v
  /\ CycleDone =>
       \A i \in DOMAIN events :
         repeated =>
           /\ i \in DOMAIN drain_log
           /\ ~dry_run => work_steps = 2 * Len(events)
           /\ overall_drain_success => i \in DOMAIN ack_calls /\ ack_calls[i].EventId = events[i].EventId
           /\ HasRecorder =>
                /\ Len(record_log) = 1
                /\ Len(record_log[1].drain_results) >= 2 * Len(events)

\* C19 witness: a cycle of two events has ended whose poll repeated events
\* of the poll before; both were drained, acknowledged and recorded again
C19_Witness ==
  /\ pc = "sleep" /\ Len(events) = 2 /\ repeated
  /\ work_steps = 4 /\ Len(ack_calls) = 2 /\ Len(record_log) = 1

\* C20: a process that has ended has exit code 0 or 1; the code is 0
\* exactly when it ended by cancellation (KeyboardInterrupt) or by the
\* break of a single-shot run (after a no-events poll or a finished cycle,
\* whatever that cycle's outcomes), and 1 exactly when the configuration
\* could not be loaded (before any poll) or a fault escaped the loop.
C20_ExitCodes ==
  pc = "exited" =>
    /\ stop.code \in {0, 1}
    /\ stop.code = 0 <=> stop.exc = "KeyboardInterrupt" \/ stop.reason = "once"
    /\ stop.code = 1 <=> stop.reason \in {"config", "Exception"}
    /\ stop.reason = "once" => once /\ (events = <<>> \/ Len(drain_log) = Len(events))
    /\ stop.reason = "config" => last_poll = "none"
    /\ stop.reason = "Exception" => stop.exc \notin {"none", "KeyboardInterrupt"}
    /\ once /\ stop.reason # "KeyboardInterrupt" /\ stop.exc = "none" => stop.code = 0

\* C21: configuration errors are fatal at startup only.  A process that
\* ends on its configuration has made no poll, no notification and no
\* acknowledgment; and once the loop has started the process never ends on
\* what the configuration holds.
C21_ConfigFatalAtStartupOnly ==
  /\ stop.reason = "config" =>
       last_poll = "none" /\ ack_calls = <<>> /\ notify_log = <<>> /\ work_steps = 0
  /\ stop.reason = "Exception" => stop.origin # "DrainHooks"

\* C22: the running count of successful acknowledgments never exceeds the
\* number of acknowledge_event calls made so far in the cycle, which never
\* exceeds the number of events of the batch; the count is the number of
\* calls that returned true, so it grows by one with each such call and
\* never otherwise.
C22_AckCount ==
  /\ ack_success_count <= Len(ack_calls)
  /\ Len(ack_calls) <= Len(events)
  /\ ack_success_count = SuccessfulAcks

\* the second call of a batch of two has failed after the first succeeded
C22_Witness ==
  /\ pc = "ack_sleep" /\ Len(events) = 2 /\ Len(ack_calls) = 2
  /\ ack_calls[1].ok /\ ~ack_calls[2].ok
  /\ ack_success_count = 1

\* C23: two polls are separated by exactly one sleep.  The loop comes to
\* its polling position only from startup or out of the sleep, the sleep
\* ends in the polling position, a poll result is delivered only by a poll
\* made from that position (never while a drain, acknowledgment or record
\* stage is running), and in continuous mode the end of a cycle, with or
\* without events, leads into the sleep.
C23_SleepBetweenPolls ==
  [][ /\ pc' = "poll" /\ pc # "poll" => pc \in {"startup", "sleep"}
      /\ pc = "sleep" /\ pc' # "sleep" => pc' \in {"poll", "exited"}
      /\ pc' = "polled" /\ pc # "polled" => pc = "poll"
      /\ last_poll' # last_poll \/ events_data' # events_data => pc = "poll"
      /\ ~once /\ pc \in {"polled", "step3", "record_wait"}
           /\ pc' \notin {pc, "drain", "record_wait", "exited"} =>
           pc' = "sleep"
    ]_vars

\* the loop is about to poll again after the sleep that followed a cycle
\* with events
C23_Witness ==
  /\ pc = "poll" /\ ~once /\ last_poll = "ok"
  /\ PolledIds(events_data) # {}
  /\ events = <<>>

\* C25: each cycle starts from a fresh result.  When the first drain of a
\* cycle is about to start there is no drain message and both flags are
\* false; during step 1 there are exactly the two messages of each event
\* drained in this cycle; what is handed to the recorder holds the two
\* messages of each event of this batch, the skip message only if a drain
\* of this cycle failed, the early-ack flag only if this cycle's calls all
\* succeeded, and a false record flag.
C25_FreshResults ==
  /\ pc = "drain" /\ idx = 1 =>
       /\ automation_results.drain_results = <<>>
       /\ ~automation_results.early_ack_success
       /\ ~automation_results.servicenow_record_success
  /\ pc \in {"drain", "action_work", "generic_work", "step2"} =>
       /\ Len(automation_results.drain_results) = 2 * Len(drain_log)
       /\ ~automation_results.early_ack_success
       /\ ~automation_results.servicenow_record_success
  /\ record_log # <<>> =>
       /\ Len(record_log[1].drain_results) =
            2 * Len(events) + (IF HasSkipMessage(record_log[1].drain_results) THEN 1 ELSE 0)
       /\ HasSkipMessage(record_log[1].drain_results) => ~AllDrained
       /\ record_log[1].early_ack_success =>
            Len(ack_calls) = Len(events) /\ SuccessfulAcks = Len(events)
       /\ ~record_log[1].servicenow_record_success

\* a cycle that follows a cycle on the same events hands the recorder a
\* result without skip message and without early-ack flag
C25_Witness ==
  /\ repeated /\ record_log # <<>>
  /\ Len(events) = 2
  /\ Len(record_log[1].drain_results) = 4
  /\ ~record_log[1].early_ack_success
  /\ automation_results.servicenow_record_success

\* C26: the configuration is read-only once the loop has started.  The
\* only step that changes it is the startup, before the first poll, and it
\* changes it in two ways only: the automation block gets dry_run set to
\* true (its other keys stay), and the servicenow block is dropped; every
\* other key stays.
C26_ConfigReadOnly ==
  [][ config' # config =>
        LET old == Get(config, "automation", EmptyDict)
            new == Get(config', "automation", EmptyDict)
        IN /\ pc = "startup" /\ pc' = "poll" /\ last_poll = "none"
           /\ \/ /\ new = old
                 /\ "automation" \in DOMAIN config' <=> "automation" \in DOMAIN config
              \/ /\ "automation" \in DOMAIN config'
                 /\ DOMAIN new = DOMAIN old \cup {"dry_run"}
                 /\ new.dry_run = TRUE
                 /\ \A k \in DOMAIN old \ {"dry_run"} : new[k] = old[k]
           /\ "servicenow" \in DOMAIN config' =>
                "servicenow" \in DOMAIN config /\ config'.servicenow = config.servicenow
           /\ \A k \in DOMAIN config \ {"automation", "servicenow"} :
                k \in DOMAIN config' /\ config'[k] = config[k]
           /\ DOMAIN config' \subseteq DOMAIN config \cup {"automation"}
    ]_vars

\* a second cycle has ended under the dry-run flag and the recorder
\* configuration, after a record that failed
C26_Witness ==
  /\ pc = "sleep" /\ repeated
  /\ config = [automation |-> [dry_run |-> TRUE, drain_timeout |-> Str("set")],
               servicenow |-> ValidBlock]
  /\ record_log # <<>> /\ ~automation_results.servicenow_record_success

\* C29: every event of a batch is drained exactly once, whatever the other
\* drains returned.  During step 1 the events before the current one have
\* been drained, one result each; when the gate is evaluated and from then
\* on every event of the batch has its result and its two messages, and
\* without dry-run both try blocks of every event were entered.
C29_NoShortCircuit ==
  /\ pc \in {"drain", "action_work", "generic_work"} => Len(drain_log) = idx - 1
  /\ pc \in {"step2", "ack", "ack_sleep", "step3", "record_wait", "sleep"} =>
       /\ Len(drain_log) = Len(events)
       /\ Len(automation_results.drain_results) >= 2 * Len(events)
       /\ ~dry_run => work_steps = 2 * Len(events)

\* the gate is about to be evaluated after the first of two drains failed
\* and the second succeeded
C29_Witness ==
  /\ pc = "step2" /\ Len(events) = 2
  /\ drain_log = <<FALSE, TRUE>>
  /\ work_steps = 4
  /\ Len(automation_results.drain_results) = 4

\* C30: the record marks the automation as successful whatever the cycle's
\* outcome.  Every payload the recorder builds has u_automation_success
\* "true", state "6" and the close note "...No issues detected."; the Early
\* ACK status, the impact window and the listed messages are those of the
\* cycle's result.
C30_RecordAlwaysSuccessful ==
  payload # NoPayload =>
    /\ record_log # <<>>
    /\ payload.u_automation_success = "true"
    /\ payload.state = "6"
    /\ payload.close_notes = "Azure Scheduled Events handled automatically. No issues detected."
    /\ payload.early_ack_status = (IF record_log[1].early_ack_success THEN "Success" ELSE "Failed")
    /\ payload.impact_window = (IF record_log[1].early_ack_success
                                  THEN "Shortened via early acknowledgment"
                                  ELSE "Standard maintenance window")
    /\ payload.automation_summary = record_log[1].drain_results

\* a payload built after a failed drain and a skipped acknowledgment
C30_Witness ==
  /\ payload # NoPayload /\ payload.u_automation_success = "true"
  /\ ~overall_drain_success /\ ~ack_attempted
  /\ HasSkipMessage(payload.automation_summary)
  /\ payload.early_ack_status = "Failed"

\* C27: the recorder is optional.  Of the processes started on a file with
\* a servicenow block: the block never stops the process at startup (the
\* process ends there only on a file that cannot be loaded, on an
\* automation value --dry-run cannot be written to, or on Ctrl+C); after
\* startup the
\* block is either complete or gone; and where it is gone no record is
\* ever attempted, no payload is built, servicenow_record_success stays
\* false, and a finished cycle has drained every event and acknowledged
\* every event exactly when all drains succeeded.
C27_OptionalRecorder ==
  /\ stop.reason = "config" /\ stop.origin # "load_config" =>
       stop.exc = "TypeError" /\ "t" \in DOMAIN config.automation
  /\ pc # "startup" /\ stop.reason \notin {"config", "uncaught"} =>
       /\ HasRecorder =>
            \A key \in {"instance_url", "username", "password"} :
               key \in DOMAIN config.servicenow /\ config.servicenow[key] = Str("set")
       /\ ~HasRecorder =>
            /\ record_log = <<>>
            /\ payload = NoPayload
            /\ ~automation_results.servicenow_record_success
            /\ pc = "sleep" /\ events # <<>> =>
                 /\ Len(drain_log) = Len(events)
                 /\ ack_attempted = AllDrained
                 /\ ack_attempted => Len(ack_calls) = Len(events)

\* a cycle of two events has ended, drained and acknowledged, without a
\* record, in a process whose servicenow block was dropped at startup
C27_Witness ==
  /\ pc = "sleep" /\ ~HasRecorder
  /\ Len(events) = 2 /\ AllDrained
  /\ Len(ack_calls) = 2 /\ automation_results.early_ack_success
  /\ record_log = <<>> /\ ~automation_results.servicenow_record_success

\* C24: liveness of the continuous loop.  Without cancellation and with
\* every external call returning, every poll that was answered is followed
\* by another poll: the cycle it starts comes back to the polling position,
\* whatever its drains, acknowledgments and record return.
C24_PollsForever ==
  (pc = "polled") ~> (pc = "poll")

\* C28: scenarios 1 and 2 are the loop with a single notification step.
\* No drain action runs and no acknowledge_event call is made; a cycle sends
\* at most one notification; a cycle that found events and has ended has
\* sent exactly one, for the whole batch; and the process never ends on an
\* exception out of the notification step.
C28_SingleNotification ==
  /\ ack_calls = <<>> /\ work_steps = 0 /\ drain_log = <<>>
  /\ Len(notify_log) <= 1
  /\ events # <<>> /\ (pc = "sleep" \/ stop.reason = "once") =>
       Len(notify_log) = 1 /\ notify_log[1].count = Len(events)
  /\ stop.origin # "process_scheduled_events"

\* C32: has_events and get_events_list agree on every poll result.  Both
\* answer every result the poll can deliver; on a failed poll, an empty
\* response, a response without Events and an empty Events list has_events
\* is false and get_events_list is the empty list; on every other result
\* has_events is true and get_events_list is the Events list as delivered;
\* and the processing step is entered with a non-empty batch only.
C32_EventsAgree ==
  LET h == has_events(events_data)
      l == get_events_list(events_data)
      none == \/ ~Truthy(events_data)
              \/ "Events" \notin events_data.has
              \/ (events_data.Events.t = "list" /\ Len(events_data.Events.v) = 0)
  IN /\ h.exc = "none"
     /\ l.t = "list"
     /\ none => ~h.val /\ Len(l.v) = 0
     /\ ~none => h.val /\ l = events_data.Events
     /\ InCycle => events # <<>>

\* C31: monitor_events keeps polling until events appear.  It ends only by
\* returning the polled events data, for which has_events is true, or by
\* returning nothing on a KeyboardInterrupt; it goes to its sleep after a
\* poll without events and to the sleep of its exception handler after a
\* fault, and from both it polls again.
C31_MonitorEvents ==
  /\ pc = "exited" => stop.reason \in {"returned", "KeyboardInterrupt"}
  /\ stop.reason = "returned" =>
       returned = events_data /\ has_events(events_data).exc = "none"
       /\ has_events(events_data).val
  /\ stop.reason # "returned" => returned = PyNone
  /\ pc = "sleep" => has_events(events_data).exc = "none" /\ ~has_events(events_data).val
  /\ pc = "retry_sleep" => has_events(events_data).exc # "none"
====
